---- MODULE Spec2Model ----
(***************************************************************************)
(* Client-side scripting layer of the MB Secure static site:               *)
(*   - getBasePath (site-config.js), the relative asset prefix;            *)
(*   - MBUtil.panel (util.js) as constructed by main.js, the slide-in      *)
(*     mobile navigation panel and its DOM event handlers;                 *)
(*   - the homepage scroll-spy of nav.js;                                  *)
(*   - the load-time fragment injectors, the structured-data emitter and   *)
(*     the main script, on documents that may lack their placeholders;     *)
(*   - escapeHtml and the markup of navList (util.js);                     *)
(*   - throttle (site-config.js).                                          *)
(* Strings are sequences of tokens: a pathname is a sequence of "/" and    *)
(* segment names, an href is a sequence such as <<"#", "about">>.          *)
(***************************************************************************)
EXTENDS Integers, Sequences, FiniteSets, TLC

VARIABLES
    pathname,       \* window.location.pathname
    hostname,       \* window.location.hostname
    basePath,       \* the value returned by getBasePath(), NotCalled before the call
    visible,        \* config.target (body) carries config.visibleClass
    touchPos,       \* panel(): touchPosX/touchPosY, NoTouch or <<x, y>>
    panelScrollTop, \* navPanel.scrollTop
    cleanupTimers,  \* pending setTimeout callbacks of hide()
    scrollTimers,   \* pending setTimeout callbacks of main.js:79, the href of each
    last,           \* what the most recent event or callback did
    scheduled,      \* history: cleanup callbacks scheduled so far
    visibleHides,   \* history: hide() calls so far that found the panel visible
    streak,         \* history: consecutive clicks on one '#navPanel' anchor
    panelBuilt,     \* main.js has appended #navPanel to the body
    spyOn,          \* the DOMContentLoaded listener of nav.js:130 has run
    sections,       \* section[id] elements: id, offsetTop, offsetHeight
    scrollY,        \* window.scrollY
    innerHeight,    \* window.innerHeight
    currentSection, \* nav.js:136, Null or a section id
    desktopCurrent, \* anchors of #nav whose parent li carries 'current'
    mobileCurrent,  \* .link elements of #navPanel that carry 'current'
    namespace,      \* site-config.js has run: window.MBSecure is defined
    present,        \* the placeholder elements the document has
    dataset,        \* the data attributes of article.blog-post
    innerHTML,      \* the content of each placeholder
    bodyAdded,      \* elements the scripts added to the body: <<script, id>>
    console,        \* diagnostics logged: <<script, level>>
    uncaught,       \* scripts that ended with an uncaught exception
    structured,     \* the JSON-LD objects appended to #blog-structured-data
    ran,            \* scripts and DOMContentLoaded listeners that have run
    navLinksIn,     \* navList: the <a> elements of nav, attributes and text
    result,         \* navList: the markup pieces pushed for them, <<>> before
    options,        \* panel(): the userConfig argument
    forms,          \* the <form> elements of the panel: has the user edited it
    limit,          \* throttle: the limit argument, in ms
    inThrottle,     \* throttle: the closure's flag
    timeouts,       \* throttle: due times of the pending setTimeout callbacks
    now,            \* the clock, in ms
    lastCall,       \* history: the latest call of the throttled function
    lastApply,      \* history: the latest func.apply(context, args)
    called,         \* history: calls of the throttled function so far
    applied,        \* history: func.apply calls so far
    openedAt        \* history: when inThrottle was last set

pathVars == <<pathname, hostname, basePath>>
panelVars == <<visible, touchPos, panelScrollTop, cleanupTimers, scrollTimers,
               last, scheduled, visibleHides, streak>>
spyVars == <<panelBuilt, spyOn, sections, scrollY, innerHeight, currentSection,
             desktopCurrent, mobileCurrent>>
loadVars == <<namespace, present, dataset, innerHTML, bodyAdded, console, uncaught,
              structured, ran>>
escVars == <<navLinksIn, result>>
optVars == <<options, forms>>
throttleVars == <<limit, inThrottle, timeouts, now, lastCall, lastApply, called,
                  applied, openedAt>>
idleVars == <<loadVars, escVars, throttleVars>>
restVars == <<idleVars, optVars>>
vars == <<pathVars, panelVars, spyVars, restVars>>

Null == "null"
NoHref == <<"(none)">>     \* getAttribute('href') === null; also: no URL requested
NoTouch == <<>>             \* touchPosX === null
NotCalled == <<"not-called">>
Undefined == "(undefined)" \* article.dataset.x when the attribute is absent
Untouched == <<"(static)">> \* the markup a placeholder has in the HTML file

(***************************************************************************)
(* Bounds                                                                  *)
(***************************************************************************)
MaxPathLen == 8
MaxHides == 2          \* hide() calls that take effect in one run
MaxScrollTimers == 1   \* pending main.js:79 timers
MaxStreak == 4         \* consecutive clicks on the toggle that are counted
MaxStrLen == 3         \* characters of an attribute value or a label
MaxTime == 6           \* ms on the clock
MaxCalls == 4          \* calls of a throttled function

(***************************************************************************)
(* String helpers: what the JavaScript built-ins do on token sequences     *)
(***************************************************************************)
RECURSIVE SplitFrom(_, _, _, _)
SplitFrom(s, sep, i, cur) ==
    IF i > Len(s) THEN <<cur>>
    ELSE IF s[i] = sep THEN <<cur>> \o SplitFrom(s, sep, i + 1, <<>>)
    ELSE SplitFrom(s, sep, i + 1, Append(cur, s[i]))

\* String.prototype.split(sep)
Split(s, sep) == SplitFrom(s, sep, 1, <<>>)

\* Array.prototype.filter(Boolean) on an array of strings: drops the empty ones
FilterBoolean(a) == SelectSeq(a, LAMBDA x : x # <<>>)

\* String.prototype.endsWith(suffix)
EndsWith(s, suffix) ==
    /\ Len(s) >= Len(suffix)
    /\ SubSeq(s, Len(s) - Len(suffix) + 1, Len(s)) = suffix

\* Array.prototype.slice(1)
Slice1(a) == IF Len(a) = 0 THEN <<>> ELSE SubSeq(a, 2, Len(a))

RECURSIVE JoinFrom(_, _, _)
JoinFrom(a, sep, i) ==
    IF i > Len(a) THEN <<>>
    ELSE IF i = Len(a) THEN a[i]
    ELSE a[i] \o sep \o JoinFrom(a, sep, i + 1)

\* Array.prototype.join(sep)
Join(a, sep) == JoinFrom(a, sep, 1)

\* Array(n).fill(x)
ArrayFill(n, x) == [i \in 1..n |-> x]

(***************************************************************************)
(* getBasePath (site-config.js)                                            *)
(***************************************************************************)
GitHubSuffix == <<".", "github", ".", "io">>
IndexHtml == <<"index.html">>

\* Mutant: the project folder is dropped only when something follows it.
isGitHubProjectSite_NeedsTwo(host, segments) ==
    /\ EndsWith(host, GitHubSuffix)
    /\ Len(segments) > 1
    /\ segments[1] # IndexHtml

isGitHubProjectSite(host, segments) ==
    /\ EndsWith(host, GitHubSuffix)
    /\ Len(segments) > 0
    /\ segments[1] # IndexHtml

isInDirectory(path) == EndsWith(path, <<"/">>) /\ path # <<"/">>

\* Mutant: the single-file root page ("/index.html") is not recognised.
isRootPage_EmptyOnly(segments, inDir) == Len(segments) = 0

\* Mutant: the directory test of the one-segment case is inverted.
isRootPage_InvertedDir(segments, inDir) ==
    Len(segments) = 0 \/ (Len(segments) = 1 /\ inDir)

isRootPage(segments, inDir) ==
    Len(segments) = 0 \/ (Len(segments) = 1 /\ ~inDir)

\* Mutant: the file name is counted as a directory level.
depthOf_CountsFile(segments, inDir) == Len(segments)

\* Mutant: a directory path is treated like a file path.
depthOf_AlwaysMinusOne(segments, inDir) == Len(segments) - 1

\* var depth = isInDirectory ? segments.length : segments.length - 1
depthOf(segments, inDir) == IF inDir THEN Len(segments) ELSE Len(segments) - 1

getBasePath(path, host) ==
    LET all      == FilterBoolean(Split(path, "/"))
        segments == IF isGitHubProjectSite(host, all) THEN Slice1(all) ELSE all
        inDir    == isInDirectory(path)
        depth    == depthOf(segments, inDir)
    IN  IF isRootPage(segments, inDir) THEN <<>>
        ELSE Join(ArrayFill(depth, <<"..">>), <<"/">>) \o <<"/">>

(***************************************************************************)
(* The document of the homepage after nav.js and main.js have run          *)
(***************************************************************************)
PanelId == "navPanel"
SelfHref == <<"#", PanelId>>    \* '#' + id

\* An element an event can be aimed at: where it sits, the attributes of
\* its closest anchor (a = FALSE when it has none) and its classes.
Element(id, in, a, href, target, link, scrolly) ==
    [id |-> id, in |-> in, a |-> a, href |-> href, target |-> target,
     link |-> link, scrolly |-> scrolly]

\* nav.js:60-84, the anchors of #nav on the homepage: logo, then navItem()
NavAnchors == <<
    [href |-> <<"index.html">>,          target |-> Null, scrolly |-> FALSE],
    [href |-> <<"#", "about">>,          target |-> Null, scrolly |-> TRUE],
    [href |-> <<"services/">>,           target |-> Null, scrolly |-> FALSE],
    [href |-> <<"#", "contact">>,        target |-> Null, scrolly |-> TRUE],
    [href |-> <<"blog/", "index.html">>, target |-> Null, scrolly |-> FALSE] >>

\* navList(nav): one a.link per anchor of nav, href and target copied
\* when they are non-empty
navList(nav) ==
    [i \in DOMAIN nav |->
        [href   |-> IF nav[i].href \in {NoHref, <<>>} THEN NoHref ELSE nav[i].href,
         target |-> IF nav[i].target \in {Null, ""} THEN Null ELSE nav[i].target]]

NavElements ==
    {Element(<<"nav", ToString(i)>>, "nav", TRUE, NavAnchors[i].href, NavAnchors[i].target,
             FALSE, NavAnchors[i].scrolly) : i \in DOMAIN NavAnchors}

PanelLinkElements ==
    LET links == navList(NavAnchors) IN
    {Element(<<"link", ToString(i)>>, "panel", TRUE, links[i].href, links[i].target,
             TRUE, FALSE) : i \in DOMAIN links}

\* Further content a panel can hold, one anchor for each case the handlers
\* of panel() tell apart (util.js:133, 140, 208); they are not a.link
\* elements, which only navList generates.
OtherPanelElements == {
    Element(<<"panel", "self">>,   "panel", TRUE, SelfHref, Null, FALSE, FALSE),
    Element(<<"panel", "hash">>,   "panel", TRUE, <<"#">>, Null, FALSE, FALSE),
    Element(<<"panel", "empty">>,  "panel", TRUE, <<>>, Null, FALSE, FALSE),
    Element(<<"panel", "nohref">>, "panel", TRUE, NoHref, Null, FALSE, FALSE),
    Element(<<"panel", "blank">>,  "panel", TRUE, <<"http", "s://example.org/">>,
            "_blank", FALSE, FALSE),
    Element(<<"panel", "bg">>,     "panel", FALSE, NoHref, Null, FALSE, FALSE) }

\* main.js:34-50: title bar (home link, toggle), backdrop; and page content
OutsideElements == {
    Element(<<"titleBar", "toggle">>, "titleBar", TRUE, SelfHref, Null, FALSE, FALSE),
    Element(<<"titleBar", "home">>,   "titleBar", TRUE, <<"/">>, Null, FALSE, FALSE),
    Element(<<"body", "backdrop">>,  "backdrop", FALSE, NoHref, Null, FALSE, FALSE),
    Element(<<"body", "content">>,   "body", FALSE, NoHref, Null, FALSE, FALSE) }

Elements == OutsideElements \cup NavElements \cup PanelLinkElements
            \cup OtherPanelElements

\* href.indexOf(prefix) === 0
StartsWith(href, prefix) == href # NoHref /\ Len(href) > 0 /\ href[1] = prefix

\* !href
Falsy(href) == href = NoHref \/ href = <<>>

\* event.target.closest('a[href="#' + id + '"]')
closestSelfAnchor(t) == t.a /\ t.href = SelfHref

(***************************************************************************)
(* MBUtil.panel(navPanel, {...}) as main.js:58-67 calls it                 *)
(***************************************************************************)
panelDefaults ==
    [delay |-> 0, hideOnClick |-> FALSE, hideOnEscape |-> FALSE,
     hideOnSwipe |-> FALSE, resetScroll |-> FALSE, resetForms |-> FALSE,
     side |-> Null, target |-> "element", visibleClass |-> "visible"]

\* main.js:58-67
userConfig ==
    [delay |-> 0, hideOnClick |-> TRUE, hideOnSwipe |-> TRUE,
     resetScroll |-> TRUE, resetForms |-> TRUE, side |-> "right",
     target |-> "body", visibleClass |-> "navPanel-visible"]

\* Object.assign({defaults}, userConfig)
config ==
    [k \in DOMAIN panelDefaults |->
        IF k \in DOMAIN options THEN options[k] ELSE panelDefaults[k]]

boundary == 20
delta == 50

\* The running record of one event's dispatch: the class on the target, the
\* calls made on the event object, and what was scheduled or requested.
NewDispatch(vis) ==
    [vis |-> vis, nPrevent |-> 0, nStop |-> 0, timers |-> 0, log |-> <<>>,
     nav |-> NoHref, opened |-> NoHref, scrollTo |-> NoHref, scrollNow |-> NoHref,
     away |-> FALSE]

preventDefault(d) == [d EXCEPT !.nPrevent = @ + 1]
stopPropagation(d) == [d EXCEPT !.nStop = @ + 1]

\* Mutant: the event is left to bubble.
hide_NoStop(d, withEvent) ==
    IF ~d.vis THEN d
    ELSE LET e == IF withEvent THEN preventDefault(d) ELSE d
         IN  [e EXCEPT !.vis = FALSE, !.timers = @ + 1]

\* Mutant: the early return of hide() is missing.
hide_NoGuard(d, withEvent) ==
    LET e == IF withEvent THEN stopPropagation(preventDefault(d)) ELSE d
    IN  [e EXCEPT !.vis = FALSE, !.timers = @ + 1]

\* hide(event), util.js:93-115
hide(d, withEvent) ==
    IF ~d.vis THEN d
    ELSE LET e == IF withEvent THEN stopPropagation(preventDefault(d)) ELSE d
         IN  [e EXCEPT !.vis = FALSE, !.timers = @ + 1]

\* A call of hide, with what it found and what it did noted in the log.
callHide(d, withEvent) ==
    LET r == hide(d, withEvent) IN
    [r EXCEPT !.log = Append(@, [found   |-> d.vis,
                                 event   |-> withEvent,
                                 left    |-> r.vis,
                                 timers  |-> r.timers - d.timers,
                                 prevent |-> r.nPrevent - d.nPrevent,
                                 stop    |-> r.nStop - d.nStop])]

\* util.js:126-145, the click listener registered when config.hideOnClick
hideOnClickListener(d, t) ==
    IF ~t.a THEN d
    ELSE IF Falsy(t.href) \/ t.href = <<"#">> \/ t.href = SelfHref THEN d
    ELSE LET e == stopPropagation(preventDefault(d)) IN
         IF t.target = "_blank" THEN [e EXCEPT !.opened = t.href]
         ELSE [e EXCEPT !.nav = t.href]

\* util.js:200-204
stopBubblingListener(d) == stopPropagation(d)

\* util.js:207-214
selfAnchorListener(d, t) ==
    IF closestSelfAnchor(t)
    THEN [stopPropagation(preventDefault(d)) EXCEPT !.vis = FALSE]
    ELSE d

\* main.js:70-83
autoCloseListener(d, t) ==
    IF ~t.link THEN d
    ELSE IF ~Falsy(t.href) /\ StartsWith(t.href, "#")
    THEN [callHide(preventDefault(d), FALSE) EXCEPT !.scrollTo = t.href]
    ELSE d

\* Mutant: the backdrop has no listener of its own.
backdropListener_Absent(d) == d

\* main.js:86-88
backdropListener(d) == callHide(d, FALSE)

\* initScrolly, util.js:282-288
scrollyListener(d, t) ==
    IF Falsy(t.href) \/ ~StartsWith(t.href, "#") \/ Len(t.href) < 2 THEN d
    ELSE [preventDefault(d) EXCEPT !.scrollNow = t.href]

\* Mutant: the class is added instead of toggled.
toggleListener_AddOnly(d, t) ==
    IF closestSelfAnchor(t)
    THEN [stopPropagation(preventDefault(d)) EXCEPT !.vis = TRUE]
    ELSE d

\* util.js:217-224
toggleListener(d, t) ==
    IF closestSelfAnchor(t)
    THEN [stopPropagation(preventDefault(d)) EXCEPT !.vis = ~@]
    ELSE d

\* Mutant: the outside-click handler does not skip the toggle anchor.
bodyHideListener_NoSkip(d, t) == callHide(d, TRUE)

\* util.js:227-231 (click) and 232-236 (touchend)
bodyHideListener(d, t) ==
    IF closestSelfAnchor(t) THEN d ELSE callHide(d, TRUE)

\* main.js:91-108
fadeOutListener(d, t) ==
    IF ~t.a THEN d
    ELSE IF /\ ~Falsy(t.href)
            /\ ~StartsWith(t.href, "#")
            /\ ~StartsWith(t.href, "http")
            /\ ~StartsWith(t.href, "mailto:")
            /\ ~StartsWith(t.href, "tel:")
            /\ t.target # "_blank"
    THEN [d EXCEPT !.away = TRUE]
    ELSE d

\* The listeners of an element run in registration order; stopPropagation
\* lets the remaining listeners of the same element run and keeps the event
\* from the ancestors.
onTarget(d, t) ==
    IF t.in = "nav" /\ t.scrolly THEN scrollyListener(d, t)
    ELSE IF t.in = "backdrop" THEN backdropListener(d)
    ELSE d

onPanelClick(d, t) ==
    IF t.in # "panel" THEN d
    ELSE LET d1 == IF config.hideOnClick THEN hideOnClickListener(d, t) ELSE d
             d2 == stopBubblingListener(d1)
             d3 == selfAnchorListener(d2, t)
         IN  autoCloseListener(d3, t)

onBodyClick(d, t) ==
    IF d.nStop > 0 THEN d
    ELSE bodyHideListener(toggleListener(d, t), t)

onDocumentClick(d, t) ==
    IF d.nStop > 0 THEN d ELSE fadeOutListener(d, t)

dispatchClick(vis, t) ==
    onDocumentClick(onBodyClick(onPanelClick(onTarget(NewDispatch(vis), t), t), t), t)

onPanelTouchEnd(d, t) ==
    IF t.in = "panel" THEN stopBubblingListener(d) ELSE d

onBodyTouchEnd(d, t) ==
    IF d.nStop > 0 THEN d ELSE bodyHideListener(d, t)

dispatchTouchEnd(vis, t) ==
    onBodyTouchEnd(onPanelTouchEnd(NewDispatch(vis), t), t)

\* The touchmove listener of the panel, util.js:154-197, then 200-204
\* The layout of the panel: element.offsetHeight and element.scrollHeight
PanelBox == [offsetHeight |-> 100, scrollHeight |-> 150]
PanelScrollTops == {0, PanelBox.scrollHeight - PanelBox.offsetHeight}
TouchStarts == {<<0, 0>>, <<51, 20>>}   \* where a touch begins: pageX, pageY
TouchXs == {0, 50, 51}                  \* event.touches[0].pageX of a move
TouchYs == {0, 19, 20}                  \* event.touches[0].pageY of a move

\* Mutant: a displacement of exactly delta counts.
swipeMatches_AtLeast(side, diffX, diffY) ==
    CASE side = "left"   -> (diffY < boundary /\ diffY > -boundary) /\ diffX >= delta
      [] side = "right"  -> (diffY < boundary /\ diffY > -boundary) /\ diffX <= -delta
      [] side = "top"    -> (diffX < boundary /\ diffX > -boundary) /\ diffY >= delta
      [] side = "bottom" -> (diffX < boundary /\ diffX > -boundary) /\ diffY <= -delta
      [] OTHER           -> FALSE

\* The switch of util.js:167-180
swipeMatches(side, diffX, diffY) ==
    CASE side = "left"   -> (diffY < boundary /\ diffY > -boundary) /\ diffX > delta
      [] side = "right"  -> (diffY < boundary /\ diffY > -boundary) /\ diffX < -delta
      [] side = "top"    -> (diffX < boundary /\ diffX > -boundary) /\ diffY > delta
      [] side = "bottom" -> (diffX < boundary /\ diffX > -boundary) /\ diffY < -delta
      [] OTHER           -> FALSE

\* <<dispatch record, touchPos afterwards>>
touchMoveListener(d, pos, x, y, scrollTop) ==
    IF pos = NoTouch THEN <<d, pos>>
    ELSE LET diffX == pos[1] - x
             diffY == pos[2] - y
             th    == PanelBox.offsetHeight
             ts    == PanelBox.scrollHeight - scrollTop
         IN  IF config.hideOnSwipe /\ swipeMatches(config.side, diffX, diffY)
             THEN <<callHide(d, FALSE), NoTouch>>
             ELSE IF \/ (scrollTop < 0 /\ diffY < 0)
                     \/ (ts > th - 2 /\ ts < th + 2 /\ diffY > 0)
             THEN <<stopPropagation(preventDefault(d)), pos>>
             ELSE <<d, pos>>

(***************************************************************************)
(* State, events and callbacks of the page                                 *)
(***************************************************************************)
NoStreak == [id |-> <<"none", "none">>, n |-> 0, start |-> FALSE]

\* What an event left behind, for the properties to read.
Summary(type, id, before, d, followed) ==
    [type |-> type, target |-> id, before |-> before, log |-> d.log,
     nPrevent |-> d.nPrevent, nStop |-> d.nStop, timers |-> d.timers,
     nav |-> d.nav, opened |-> d.opened, scrollTo |-> d.scrollTo,
     scrollNow |-> d.scrollNow, away |-> d.away, followed |-> followed,
     from |-> NoTouch, at |-> NoTouch]

Quiet(type) == Summary(type, <<"none", "none">>, visible, NewDispatch(visible), NoHref)

\* hide() calls in a log that found the panel visible
RECURSIVE FoundVisible(_)
FoundVisible(log) ==
    IF log = <<>> THEN 0
    ELSE (IF Head(log).found THEN 1 ELSE 0) + FoundVisible(Tail(log))

\* The ids of the elements the components look up.
Placeholders == {"nav", "header", "footer", "contact-content", "article",
                 "blog-structured-data"}

\* A blog post page with every placeholder, before its scripts have run.
LoadIdle ==
    /\ namespace = TRUE
    /\ present = Placeholders
    /\ dataset = [headline |-> "Post", datePublished |-> "2020-01-01",
                  dateModified |-> "2020-02-03", description |-> "Text",
                  image |-> Undefined]
    /\ innerHTML = [p \in Placeholders |-> Untouched]
    /\ bodyAdded = <<>>
    /\ console = <<>>
    /\ uncaught = {}
    /\ structured = <<>>
    /\ ran = {}

\* The logo anchor of #nav, before the panel's markup is built from it.
EscIdle ==
    /\ navLinksIn = << [href |-> <<"index.html">>, target |-> NoHref, textContent |-> <<>>,
                   lis |-> 0] >>
    /\ result = <<>>

Never == -1
NoCall == [this |-> Null, args |-> <<>>, at |-> Never, did |-> "none"]

\* A throttled function that has not been called: var inThrottle is
\* undefined, which the test !inThrottle reads as false.
ThrottleNew ==
    /\ inThrottle = FALSE
    /\ timeouts = <<>>
    /\ now = 0
    /\ lastCall = NoCall
    /\ lastApply = NoCall
    /\ called = 0
    /\ applied = 0
    /\ openedAt = Never

ThrottleIdle == limit = 0 /\ ThrottleNew

\* The panel as main.js:55-67 builds it: a <nav> of links and no form.
OptIdle ==
    /\ options = userConfig
    /\ forms = <<>>

\* The parts of the page an execution does not exercise.
RestIdle == LoadIdle /\ EscIdle /\ OptIdle /\ ThrottleIdle

\* The page with the panel built, before the scroll-spy is wired.
PageAtRest ==
    /\ panelBuilt = TRUE
    /\ spyOn = FALSE
    /\ sections = << [id |-> "about", offsetTop |-> 0, offsetHeight |-> 50],
                     [id |-> "contact", offsetTop |-> 60, offsetHeight |-> 40] >>
    /\ scrollY = 0
    /\ innerHeight = 10
    /\ currentSection = Null
    /\ desktopCurrent = {}
    /\ mobileCurrent = {}

PanelInit ==
    /\ visible = FALSE
    /\ touchPos = NoTouch
    /\ panelScrollTop = 0
    /\ cleanupTimers = 0
    /\ scrollTimers = <<>>
    /\ last = Quiet("load")
    /\ scheduled = 0
    /\ visibleHides = 0
    /\ streak = NoStreak

\* The class, the timers and the history after a dispatch d.
Settle(d) ==
    /\ scheduled + d.timers <= MaxHides
    /\ visible' = d.vis
    /\ cleanupTimers' = cleanupTimers + d.timers
    /\ scheduled' = scheduled + d.timers
    /\ visibleHides' = visibleHides + FoundVisible(d.log)
    /\ IF d.scrollTo = NoHref
       THEN scrollTimers' = scrollTimers
       ELSE /\ Len(scrollTimers) < MaxScrollTimers
            /\ scrollTimers' = Append(scrollTimers, d.scrollTo)

\* The browser's default action for a click that no listener prevented.
defaultAction(d, t) ==
    IF d.nPrevent = 0 /\ t.a /\ t.href # NoHref THEN t.href ELSE NoHref

Click(t) ==
    LET d == dispatchClick(visible, t) IN
    /\ Settle(d)
    /\ last' = Summary("click", t.id, visible, d, defaultAction(d, t))
    /\ IF closestSelfAnchor(t)
       THEN IF streak.n > 0 /\ streak.id = t.id
            THEN /\ streak.n < MaxStreak
                 /\ streak' = [streak EXCEPT !.n = @ + 1]
            ELSE streak' = [id |-> t.id, n |-> 1, start |-> visible]
       ELSE streak' = NoStreak
    /\ UNCHANGED <<restVars, pathVars, spyVars, touchPos, panelScrollTop>>

TouchEnd(t) ==
    LET d == dispatchTouchEnd(visible, t) IN
    /\ Settle(d)
    /\ last' = Summary("touchend", t.id, visible, d, NoHref)
    /\ streak' = NoStreak
    /\ UNCHANGED <<restVars, pathVars, spyVars, touchPos, panelScrollTop>>

\* util.js:149-152, then 200-204
TouchStart(x, y) ==
    /\ touchPos' = <<x, y>>
    /\ last' = Summary("touchstart", <<"panel", "bg">>, visible,
                       stopBubblingListener(NewDispatch(visible)), NoHref)
    /\ streak' = NoStreak
    /\ UNCHANGED <<restVars, pathVars, spyVars, visible, panelScrollTop, cleanupTimers, scrollTimers,
                   scheduled, visibleHides>>

TouchMove(x, y) ==
    LET r == touchMoveListener(NewDispatch(visible), touchPos, x, y, panelScrollTop)
        d == stopBubblingListener(r[1])
    IN  /\ Settle(d)
        /\ touchPos' = r[2]
        /\ last' = [Summary("touchmove", <<"panel", "bg">>, visible, d, NoHref)
                        EXCEPT !.from = touchPos,
                               !.at = IF touchPos = NoTouch THEN NoTouch ELSE <<x, y>>]
        /\ streak' = NoStreak
        /\ UNCHANGED <<restVars, pathVars, spyVars, panelScrollTop>>

\* The content of the panel is scrolled.
PanelScroll(v) ==
    /\ v # panelScrollTop
    /\ panelScrollTop' = v
    /\ last' = Quiet("panelscroll")
    /\ streak' = NoStreak
    /\ UNCHANGED <<restVars, pathVars, spyVars, visible, touchPos, cleanupTimers, scrollTimers,
                   scheduled, visibleHides>>

\* The callback hide() passes to setTimeout, util.js:105-114
CleanupTimer ==
    /\ cleanupTimers > 0
    /\ cleanupTimers' = cleanupTimers - 1
    /\ panelScrollTop' = IF config.resetScroll THEN 0 ELSE panelScrollTop
    /\ forms' = IF config.resetForms THEN [f \in DOMAIN forms |-> FALSE] ELSE forms
    /\ last' = Quiet("cleanup")
    /\ streak' = NoStreak
    /\ UNCHANGED <<idleVars, options, pathVars, spyVars, visible, touchPos, scrollTimers,
                   scheduled, visibleHides>>

\* The callback of main.js:79-81: MBUtil.scrollTo(href, {offset: 55})
ScrollToTimer ==
    /\ scrollTimers # <<>>
    /\ scrollTimers' = Tail(scrollTimers)
    /\ last' = [Quiet("scrollTo") EXCEPT !.scrollNow = Head(scrollTimers)]
    /\ streak' = NoStreak
    /\ UNCHANGED <<restVars, pathVars, spyVars, visible, touchPos, panelScrollTop, cleanupTimers,
                   scheduled, visibleHides>>

Init ==
    /\ pathname = <<"/">>
    /\ hostname = <<"mbsecure", ".", "nl">>
    /\ basePath = getBasePath(pathname, hostname)
    /\ PanelInit
    /\ RestIdle
    /\ PageAtRest

Next ==
    \/ \E t \in Elements : Click(t)
    \/ \E t \in Elements : TouchEnd(t)
    \/ \E p \in TouchStarts : TouchStart(p[1], p[2])
    \/ \E x \in TouchXs, y \in TouchYs : TouchMove(x, y)
    \/ \E v \in PanelScrollTops : PanelScroll(v)
    \/ CleanupTimer
    \/ ScrollToTimer

Spec == Init /\ [][Next]_vars

(***************************************************************************)
(* Scroll-spy of the homepage, nav.js:129-190                              *)
(***************************************************************************)
Section(id, top, height) == [id |-> id, offsetTop |-> top, offsetHeight |-> height]

\* Page layouts: contiguous sections, sections with a gap, overlapping ones.
Layouts == {
    << Section("banner", 0, 40), Section("about", 40, 40), Section("contact", 80, 40) >>,
    << Section("about", 0, 50), Section("contact", 60, 40) >>,
    << Section("about", 0, 60), Section("contact", 40, 60) >> }

ScrollYs == {0, 33, 37, 45, 52, 77, 95, 120}
InnerHeights == {10, 25}

\* navElement.querySelectorAll('a.scrolly')
navLinks == {i \in DOMAIN NavAnchors : NavAnchors[i].scrolly}

\* querySelector('[href="#' + id + '"]') over a list of anchors: the index
\* of the first match, 0 when there is none
firstWithHref(anchors, id) ==
    LET hits == {i \in DOMAIN anchors : anchors[i].href = <<"#", id>>}
    IN  IF hits = {} THEN 0 ELSE CHOOSE i \in hits : \A j \in hits : i <= j

\* Mutant: the 'current' class is not removed from the other nav items.
clearCurrent_Keep(marked, links) == marked

\* links.forEach(link => ... classList.remove('current'))
clearCurrent(marked, links) == marked \ links

\* ... classList.add('current') on the first match, when there is one
markCurrent(marked, anchors, id) ==
    IF id # Null /\ firstWithHref(anchors, id) # 0
    THEN marked \cup {firstWithHref(anchors, id)}
    ELSE marked

\* Mutant: 'current' is not removed from the links of the panel.
updateCurrentSection_MobileKeeps(st, id, built) ==
    IF st[1] = id THEN st
    ELSE << id,
            markCurrent(clearCurrent(st[2], navLinks), NavAnchors, id),
            IF built
            THEN markCurrent(st[3], navList(NavAnchors), id)
            ELSE st[3] >>

\* Mutant: the new id is not recorded.
updateCurrentSection_NoRecord(st, id, built) ==
    IF st[1] = id THEN st
    ELSE << st[1],
            markCurrent(clearCurrent(st[2], navLinks), NavAnchors, id),
            IF built
            THEN markCurrent(clearCurrent(st[3], DOMAIN navList(NavAnchors)),
                             navList(NavAnchors), id)
            ELSE st[3] >>

\* updateCurrentSection(id), nav.js:138-169, on <<currentSection,
\* desktopCurrent, mobileCurrent>>
updateCurrentSection(st, id, built) ==
    IF st[1] = id THEN st
    ELSE << id,
            markCurrent(clearCurrent(st[2], navLinks), NavAnchors, id),
            IF built
            THEN markCurrent(clearCurrent(st[3], DOMAIN navList(NavAnchors)),
                             navList(NavAnchors), id)
            ELSE st[3] >>

\* Mutant: the viewport height is left out of the probe.
scrollPos10_NoViewport(y, h) == 10 * y

\* var scrollPos = window.scrollY + window.innerHeight * 0.3, in tenths
scrollPos10(y, h) == 10 * y + 3 * h

\* Mutant: the first section that holds the position is kept.
foundSection_First(secs, pos10, found) ==
    LET hits == {i \in DOMAIN secs :
                    /\ pos10 >= 10 * secs[i].offsetTop
                    /\ pos10 < 10 * (secs[i].offsetTop + secs[i].offsetHeight)}
    IN  IF hits = {} THEN found
        ELSE secs[CHOOSE i \in hits : \A j \in hits : i <= j].id

\* sections.forEach(...), nav.js:175-182: every section whose range holds
\* the probe assigns foundSection
RECURSIVE foundSection(_, _, _)
foundSection(secs, pos10, found) ==
    IF secs = <<>> THEN found
    ELSE LET top    == Head(secs).offsetTop
             bottom == top + Head(secs).offsetHeight
         IN  foundSection(Tail(secs), pos10,
                          IF pos10 >= 10 * top /\ pos10 < 10 * bottom
                          THEN Head(secs).id ELSE found)

\* onScroll(), nav.js:171-185
onScroll(st, secs, y, h, built) ==
    updateCurrentSection(st, foundSection(secs, scrollPos10(y, h), Null), built)

SpyIdle ==
    /\ sections \in Layouts
    /\ scrollY \in ScrollYs
    /\ innerHeight \in InnerHeights
    /\ currentSection = Null
    /\ desktopCurrent = {}
    /\ mobileCurrent = {}
    /\ spyOn = FALSE

SpyBecomes(st) ==
    /\ currentSection' = st[1]
    /\ desktopCurrent' = st[2]
    /\ mobileCurrent' = st[3]

SpyEvent(type) == [Quiet(type) EXCEPT !.target = <<"section", currentSection>>]

\* main.js:53-56 builds the panel from the links of #nav
MainScript ==
    /\ ~panelBuilt
    /\ panelBuilt' = TRUE
    /\ last' = SpyEvent("main.js")
    /\ UNCHANGED <<restVars, pathVars, visible, touchPos, panelScrollTop, cleanupTimers,
                   scrollTimers, scheduled, visibleHides, streak, spyOn, sections,
                   scrollY, innerHeight, currentSection, desktopCurrent, mobileCurrent>>

\* nav.js:130-189: the listener registers onScroll and runs it once
DOMContentLoaded ==
    /\ ~spyOn
    /\ spyOn' = TRUE
    /\ IF Len(sections) = 0 \/ navLinks = {}
       THEN UNCHANGED <<currentSection, desktopCurrent, mobileCurrent>>
       ELSE SpyBecomes(onScroll(<<currentSection, desktopCurrent, mobileCurrent>>,
                                sections, scrollY, innerHeight, panelBuilt))
    /\ last' = SpyEvent("DOMContentLoaded")
    /\ UNCHANGED <<restVars, pathVars, visible, touchPos, panelScrollTop, cleanupTimers,
                   scrollTimers, scheduled, visibleHides, streak, panelBuilt,
                   sections, scrollY, innerHeight>>

\* The window scrolls to y and the scroll event reaches the listeners.
Scroll(y) ==
    /\ y # scrollY
    /\ scrollY' = y
    /\ IF spyOn
       THEN SpyBecomes(onScroll(<<currentSection, desktopCurrent, mobileCurrent>>,
                                sections, y, innerHeight, panelBuilt))
       ELSE UNCHANGED <<currentSection, desktopCurrent, mobileCurrent>>
    /\ last' = SpyEvent("scroll")
    /\ UNCHANGED <<restVars, pathVars, visible, touchPos, panelScrollTop, cleanupTimers,
                   scrollTimers, scheduled, visibleHides, streak, panelBuilt,
                   spyOn, sections, innerHeight>>

\* The viewport is resized; no script of the site listens for it.
Resize(h) ==
    /\ h # innerHeight
    /\ innerHeight' = h
    /\ last' = SpyEvent("resize")
    /\ UNCHANGED <<restVars, pathVars, visible, touchPos, panelScrollTop, cleanupTimers,
                   scrollTimers, scheduled, visibleHides, streak, panelBuilt,
                   spyOn, sections, scrollY, currentSection, desktopCurrent,
                   mobileCurrent>>

InitSpy ==
    /\ pathname = <<"/">>
    /\ hostname = <<"mbsecure", ".", "nl">>
    /\ basePath = getBasePath(pathname, hostname)
    /\ PanelInit
    /\ RestIdle
    /\ SpyIdle
    /\ panelBuilt = FALSE

NextSpy ==
    \/ MainScript
    \/ DOMContentLoaded
    \/ \E y \in ScrollYs : Scroll(y)
    \/ \E h \in InnerHeights : Resize(h)

SpecSpy == InitSpy /\ [][NextSpy]_vars

(***************************************************************************)
(* Locations the function is applied to                                    *)
(***************************************************************************)
Names == {"blog", "index.html", "2024", "01", "post.html", "my-project"}

\* Two names never adjoin: adjacent names would be one longer name.
RECURSIVE PathsOfLen(_)
PathsOfLen(n) ==
    IF n = 1 THEN {<<"/">>}
    ELSE {Append(p, "/") : p \in PathsOfLen(n - 1)}
         \cup {Append(p, nm) : p \in {q \in PathsOfLen(n - 1) : q[Len(q)] = "/"},
                               nm \in Names}

Pathnames == UNION {PathsOfLen(n) : n \in 1..MaxPathLen}

PlainHosts == {<<"mbsecure", ".", "nl">>, <<"localhost">>, <<"github", ".", "io">>}
GitHubHosts == {<<"marcusprivate", ".", "github", ".", "io">>}
Hostnames == PlainHosts \cup GitHubHosts

InitPath ==
    /\ pathname \in Pathnames
    /\ hostname \in Hostnames
    /\ basePath = NotCalled
    /\ PanelInit
    /\ RestIdle
    /\ PageAtRest

\* A script (nav.js:32, main.js:30, header.js, footer.js) calls getBasePath().
CallGetBasePath ==
    /\ basePath = NotCalled
    /\ basePath' = getBasePath(pathname, hostname)
    /\ UNCHANGED <<restVars, pathname, hostname, panelVars, spyVars>>

NextPath == CallGetBasePath

SpecPath == InitPath /\ [][NextPath]_vars

(***************************************************************************)
(* Properties of the panel, checked under Spec                             *)
(***************************************************************************)
ToggleId == <<"titleBar", "toggle">>
Flipped(start, n) == IF n % 2 = 0 THEN start ELSE ~start

\* C1 (as stated): after n consecutive clicks on any one anchor with href
\* '#navPanel' the class is as before the clicks when n is even and flipped
\* when n is odd.
C1_ParityAnyAnchor ==
    streak.n > 0 => visible = Flipped(streak.start, streak.n)

\* C1 (amended): the parity holds for an anchor with href '#navPanel' that
\* sits outside the panel element; clicks on such an anchor inside the panel
\* leave the panel hidden, whatever their number.
C1_ToggleParity ==
    /\ (streak.n > 0 /\ streak.id[1] # "panel")
          => visible = Flipped(streak.start, streak.n)
    /\ (streak.n > 0 /\ streak.id[1] = "panel") => ~visible

C1_Witness ==
    /\ streak.id = ToggleId
    /\ streak.n = 4
    /\ streak.start
    /\ visible

\* C2: a click or touchend on the toggle anchor of the title bar makes no
\* call of hide; the click flips the class exactly once from either state,
\* the touchend leaves it alone, and neither schedules a cleanup.
C2_ToggleExcludesHide ==
    (last.target = ToggleId /\ last.type \in {"click", "touchend"})
        => /\ last.log = <<>>
           /\ last.timers = 0
           /\ last.type = "click" => visible = ~last.before
           /\ last.type = "touchend" => visible = last.before

C2_Witness ==
    /\ last.type = "click"
    /\ last.target = ToggleId
    /\ ~last.before
    /\ visible
    /\ last.nStop = 1

\* C3: a call of hide that finds the class absent removes nothing, schedules
\* no cleanup and calls neither preventDefault nor stopPropagation; the
\* cleanups scheduled so far are as many as the calls that found it present.
C3_HideIdempotent ==
    /\ \A i \in DOMAIN last.log :
          ~last.log[i].found
              => /\ ~last.log[i].left
                 /\ last.log[i].timers = 0
                 /\ last.log[i].prevent = 0
                 /\ last.log[i].stop = 0
    /\ scheduled = visibleHides

\* Two calls in succession on a hidden panel (backdrop listener, then the
\* body listener), after an earlier call that took effect.
C3_Witness ==
    /\ Len(last.log) = 2
    /\ ~last.log[1].found
    /\ ~last.log[2].found
    /\ last.log[2].event
    /\ scheduled = 2
    /\ ~visible

RealDestination(href) == href # NoHref /\ href # <<>> /\ href # <<"#">> /\ href # SelfHref

\* C4: after a click on a link inside the panel with a real destination the
\* panel is hidden, whether the link navigates or opens a new tab.
C4_LinkClickHides ==
    (/\ last.type = "click"
     /\ \E t \in Elements : t.id = last.target /\ t.in = "panel" /\ t.a
                            /\ RealDestination(t.href))
        => ~visible

BackdropId == <<"body", "backdrop">>

\* C21: after a click on the backdrop the panel is hidden; the backdrop
\* listener's hide found the class exactly when the panel was visible and
\* then scheduled the one cleanup of the click, the body's handler found it
\* absent, scheduled nothing and called neither preventDefault nor
\* stopPropagation; when the panel was hidden nothing was scheduled at all.
C21_BackdropHidesOnce ==
    (last.type = "click" /\ last.target = BackdropId) =>
        /\ ~visible
        /\ Len(last.log) = 2
        /\ ~last.log[1].event /\ last.log[1].found = last.before
        /\ last.log[1].timers = (IF last.before THEN 1 ELSE 0)
        /\ last.log[2].event /\ ~last.log[2].found /\ last.log[2].timers = 0
        /\ last.timers = (IF last.before THEN 1 ELSE 0)
        /\ last.nPrevent = 0 /\ last.nStop = 0

C21_Witness ==
    /\ last.type = "click"
    /\ last.target = BackdropId
    /\ last.before
    /\ ~visible
    /\ last.timers = 1
    /\ cleanupTimers = 1

(***************************************************************************)
(* Properties of the scroll-spy, checked under SpecSpy                     *)
(***************************************************************************)
\* C5: at most one nav item and at most one mobile link carry 'current'.
C5_AtMostOneCurrent ==
    /\ Cardinality(desktopCurrent) <= 1
    /\ Cardinality(mobileCurrent) <= 1

\* A scroll event that moved the highlight from one section to another.
C5_Witness ==
    /\ last.type = "scroll"
    /\ last.target = <<"section", "about">>
    /\ currentSection = "contact"
    /\ Cardinality(desktopCurrent) = 1
    /\ Cardinality(mobileCurrent) = 1

\* The section named id holds the point scrollY + 0.3 * innerHeight.
HoldsProbe(id) ==
    \E i \in DOMAIN sections :
        /\ sections[i].id = id
        /\ 10 * scrollY + 3 * innerHeight >= 10 * sections[i].offsetTop
        /\ 10 * scrollY + 3 * innerHeight
              < 10 * (sections[i].offsetTop + sections[i].offsetHeight)

\* C6 (as stated): in every state a non-null currentSection names a section
\* whose range holds scrollY + 0.3 * innerHeight.
C6_CurrentHoldsProbeAlways ==
    currentSection # Null => HoldsProbe(currentSection)

\* C6 (amended): the same, in the states the scroll handler has just left
\* (its initial run or a scroll event), before the viewport changes again.
C6_CurrentHoldsProbeAfterScroll ==
    (last.type \in {"scroll", "DOMContentLoaded"} /\ currentSection # Null)
        => HoldsProbe(currentSection)

C6_Witness ==
    /\ last.type = "scroll"
    /\ innerHeight = 25
    /\ scrollY = 33
    /\ currentSection = "about"
    /\ sections[1].id = "banner"

\* The sections whose range holds the probe, by position in the document
Holding ==
    {i \in DOMAIN sections :
        /\ 10 * scrollY + 3 * innerHeight >= 10 * sections[i].offsetTop
        /\ 10 * scrollY + 3 * innerHeight
              < 10 * (sections[i].offsetTop + sections[i].offsetHeight)}

FirstHolding == CHOOSE i \in Holding : \A j \in Holding : i <= j
LastHolding == CHOOSE i \in Holding : \A j \in Holding : i >= j

\* The scroll handler has just run.
JustSpied == spyOn /\ last.type \in {"scroll", "DOMContentLoaded"}

\* C18 as stated: the handler selects the first section in document order
\* whose range holds the probe, and null when none does.
C18_FirstMatchWins ==
    JustSpied =>
        currentSection = (IF Holding = {} THEN Null ELSE sections[FirstHolding].id)

\* C18: the handler selects the last section in document order whose range
\* [offsetTop, offsetTop + offsetHeight) holds scrollY + 0.3 * innerHeight,
\* and null when none does.
C18_LastMatchWins ==
    JustSpied =>
        currentSection = (IF Holding = {} THEN Null ELSE sections[LastHolding].id)

\* The probe lies in the overlap of two sections.
C18_Witness ==
    /\ JustSpied
    /\ Cardinality(Holding) = 2
    /\ currentSection = "contact"
    /\ sections[1].id = "about"

\* The id the handler selects in a state
Selected == IF Holding = {} THEN Null ELSE sections[LastHolding].id

\* The anchors of a list that point at a section
AnchorsFor(anchors, id) == {i \in DOMAIN anchors : anchors[i].href = <<"#", id>>}

\* A scroll event that reaches the handler: with the selected id equal to
\* the recorded one nothing changes; otherwise the new id is recorded and
\* 'current' is on the anchor of that section and on no other, in the
\* desktop nav and, when the panel exists, in the panel.
ScrollStepAsStated ==
    (spyOn /\ scrollY' # scrollY) =>
        IF Selected' = currentSection
        THEN UNCHANGED <<currentSection, desktopCurrent, mobileCurrent>>
        ELSE /\ currentSection' = Selected'
             /\ desktopCurrent' = AnchorsFor(NavAnchors, Selected')
             /\ mobileCurrent' = (IF panelBuilt
                                  THEN AnchorsFor(navList(NavAnchors), Selected')
                                  ELSE mobileCurrent)

\* C19: a scroll event whose selected id equals currentSection changes no
\* 'current' class and leaves currentSection as it was; one with a different
\* id clears and sets once and records the new id.
C19_UpdateOnlyOnChange == [][ScrollStepAsStated]_vars

\* A scroll within the section that is already current.
C19_Witness ==
    /\ last.type = "scroll"
    /\ spyOn /\ panelBuilt
    /\ last.target = <<"section", "about">>
    /\ currentSection = "about"
    /\ Cardinality(desktopCurrent) = 1
    /\ Cardinality(mobileCurrent) = 1

\* The hrefs of the desktop anchors and of the panel links that carry
\* 'current'
DesktopHrefs == {NavAnchors[i].href : i \in desktopCurrent}
MobileHrefs == {navList(NavAnchors)[i].href : i \in mobileCurrent}

\* C22: after a run of the scroll handler with the panel in the document,
\* a panel link that carries 'current' has the href '#<id>' of the recorded
\* section, which is the href of the desktop item that carries it, and no
\* link or item carries it when the recorded section is null; whether the
\* panel was built before or after the handler's first run.
C22_HighlightsInSync ==
    (JustSpied /\ panelBuilt) =>
        /\ MobileHrefs \subseteq DesktopHrefs
        /\ MobileHrefs \subseteq {<<"#", currentSection>>}
        /\ Cardinality(mobileCurrent) <= 1
        /\ currentSection = Null => (desktopCurrent = {} /\ mobileCurrent = {})

\* The panel carries the highlight of the second section after a scroll.
C22_Witness ==
    /\ JustSpied /\ panelBuilt
    /\ last.type = "scroll"
    /\ last.target = <<"section", "about">>
    /\ currentSection = "contact"
    /\ MobileHrefs = {<<"#", "contact">>}
    /\ DesktopHrefs = {<<"#", "contact">>}

(***************************************************************************)
(* Properties of getBasePath, checked under SpecPath                       *)
(***************************************************************************)
Called == basePath # NotCalled

\* n repetitions of "../"
DotDot(n) == [i \in 1..(2 * n) |-> IF i % 2 = 1 THEN ".." ELSE "/"]

\* The non-empty segments of a pathname are its name tokens.
NameCount(path) == Cardinality({i \in DOMAIN path : path[i] # "/"})
FirstName(path) == path[CHOOSE i \in DOMAIN path :
                          /\ path[i] # "/"
                          /\ \A j \in 1..(i - 1) : path[j] = "/"]
IsFilePath(path) == path[Len(path)] # "/"
IsDirectoryLike(path) == path[Len(path)] = "/" /\ path # <<"/">>
OnGitHubPages(host) ==
    Len(host) >= 4 /\ host[Len(host)] = "io" /\ host[Len(host) - 1] = "."
                   /\ host[Len(host) - 2] = "github" /\ host[Len(host) - 3] = "."
\* The hosting project folder: first segment on a GitHub-Pages host, unless
\* it is the root document name.
HasProjectFolder(path, host) ==
    OnGitHubPages(host) /\ NameCount(path) > 0 /\ FirstName(path) # "index.html"
\* Segments that count toward the depth.
SiteSegments(path, host) ==
    IF HasProjectFolder(path, host) THEN NameCount(path) - 1 ELSE NameCount(path)
\* Directories between the site root and a file.
DirsAbove(path, host) ==
    IF SiteSegments(path, host) = 0 THEN 0 ELSE SiteSegments(path, host) - 1

\* C7 (as stated): a file k >= 1 directories below the root gets k-1
\* repetitions of "../"; "/blog/index.html" gets "" and
\* "/blog/2024/01/post.html" gets "../../".
C7_FileDepthAsStated ==
    (Called /\ IsFilePath(pathname) /\ NameCount(pathname) >= 2)
        => basePath = DotDot(NameCount(pathname) - 2)

\* C7 (amended): a file k >= 0 directories below the site root gets k
\* repetitions of "../" (the GitHub-Pages project folder is not a directory
\* of the site): "/blog/index.html" gets "../" and "/blog/2024/01/post.html"
\* gets "../../../" on an ordinary host.
C7_FileDepth ==
    /\ (Called /\ IsFilePath(pathname))
          => basePath = DotDot(DirsAbove(pathname, hostname))
    /\ (Called /\ hostname \in PlainHosts
               /\ pathname = <<"/", "blog", "/", "index.html">>)
          => basePath = <<"..", "/">>
    /\ (Called /\ hostname \in PlainHosts
               /\ pathname = <<"/", "blog", "/", "2024", "/", "01", "/", "post.html">>)
          => basePath = <<"..", "/", "..", "/", "..", "/">>

C7_Witness ==
    /\ Called
    /\ hostname = <<"mbsecure", ".", "nl">>
    /\ pathname = <<"/", "blog", "/", "2024", "/", "01", "/", "post.html">>
    /\ basePath = DotDot(3)

\* C8: a directory-like pathname with n >= 1 segments (counted after the
\* project folder is dropped) gets n repetitions of "../"; a file path gets
\* n - 1; "/blog/" gets "../".
C8_DirectoryDepth ==
    LET n == SiteSegments(pathname, hostname) IN
    /\ (Called /\ IsDirectoryLike(pathname) /\ n >= 1) => basePath = DotDot(n)
    /\ (Called /\ ~IsDirectoryLike(pathname) /\ n >= 1) => basePath = DotDot(n - 1)
    /\ (Called /\ hostname \in PlainHosts /\ pathname = <<"/", "blog", "/">>)
          => basePath = <<"..", "/">>

C8_Witness ==
    /\ Called
    /\ hostname = <<"mbsecure", ".", "nl">>
    /\ pathname = <<"/", "blog", "/", "2024", "/">>
    /\ basePath = DotDot(2)

\* C9: "/" and "/index.html" get the empty string on every hostname.
C9_RootPages ==
    (Called /\ pathname \in {<<"/">>, <<"/", "index.html">>}) => basePath = <<>>

C9_Witness ==
    /\ Called
    /\ hostname \in GitHubHosts
    /\ pathname = <<"/", "index.html">>
    /\ basePath = <<>>

\* C10: on a host ending in ".github.io", "/<project>/<rest>" with
\* <project> other than "index.html" gets what "/<rest>" gets on a host
\* that is not a GitHub-Pages host.
C10_ProjectPrefixTransparent ==
    (/\ Called
     /\ OnGitHubPages(hostname)
     /\ Len(pathname) >= 3
     /\ pathname[2] \notin {"/", "index.html"})
        => \A h \in PlainHosts :
              basePath = getBasePath(<<"/">> \o SubSeq(pathname, 4, Len(pathname)), h)

C10_Witness ==
    /\ Called
    /\ hostname \in GitHubHosts
    /\ pathname = <<"/", "my-project", "/", "blog", "/", "index.html">>
    /\ basePath = <<"..", "/">>


\* "" or (../)+ : ".." and "/" alternate, starting with ".." and ending
\* with "/".
IsPrefixShape(r) ==
    /\ Len(r) % 2 = 0
    /\ \A i \in DOMAIN r : r[i] = (IF i % 2 = 1 THEN ".." ELSE "/")

\* C11: for every pathname and hostname the result of getBasePath is the
\* empty string or one or more repetitions of "../" and nothing else; it is
\* never "/".
C11_ResultShape ==
    Called => (IsPrefixShape(basePath) /\ basePath # <<"/">>)

C11_Witness ==
    /\ Called
    /\ hostname \in GitHubHosts
    /\ pathname = <<"/", "my-project", "/", "blog", "/", "/", "2024", "/">>
    /\ basePath = <<"..", "/", "..", "/">>


(***************************************************************************)
(* Page load: the fragment injectors, the structured-data emitter and the  *)
(* main script, each run once against a document that may lack any of the  *)
(* elements they look up and against a window that may lack MBSecure.      *)
(***************************************************************************)
\* site-config.js:10-29
SITE_CONFIG ==
    [contact  |-> [email |-> "Marcus@MBSecure.nl", phone |-> "+31 6 41 54 50 71"],
     social   |-> [linkedin |-> "https://www.linkedin.com/in/marcusbakker",
                   github   |-> "https://github.com/marcusbakker",
                   x        |-> "https://x.com/Bakk3rM"],
     branding |-> [siteName |-> "MB Secure", logoAlt |-> "MB Secure"]]

\* String.prototype.toLowerCase on the addresses that occur
toLowerCase(s) ==
    IF s = "Marcus@MBSecure.nl" THEN "marcus@mbsecure.nl" ELSE s

\* phone.replace(/\s/g, ''), contact.js:25
removeSpaces(s) ==
    IF s = "+31 6 41 54 50 71" THEN "+31641545071" ELSE s

NoWrite == <<"(no-write)">>

\* What one run of a script or listener does: the innerHTML it assigns to
\* its placeholder, what it logs, whether it ends with an uncaught
\* exception, the elements it adds to the body and the JSON-LD it appends.
Outcome(html, log, threw, added, data) ==
    [html |-> html, log |-> log, threw |-> threw, added |-> added, data |-> data]

Returns == Outcome(NoWrite, <<>>, FALSE, <<>>, <<>>)
Writes(html) == Outcome(html, <<>>, FALSE, <<>>, <<>>)
Logs(script, level) == Outcome(NoWrite, << <<script, level>> >>, FALSE, <<>>, <<>>)

\* header.js:8-37. Without MBSecure, window.getBasePath is undefined too.
header(ns, has, base) ==
    IF ~ns THEN Logs("header.js", "error")
    ELSE IF "header" \in has
         THEN Writes(<<"a#logo", "href=">> \o base \o <<"index.html", "img", "src=">>
                     \o base \o <<"images/logo.png", "alt=",
                                  SITE_CONFIG.branding.logoAlt>>)
         ELSE Returns

\* footer.js:8-38
footer(ns, has) ==
    IF ~ns THEN Logs("footer.js", "error")
    ELSE IF "footer" \in has
         THEN Writes(<<"ul.contact", SITE_CONFIG.social.linkedin, SITE_CONFIG.social.x,
                       SITE_CONFIG.social.github, "mailto:",
                       SITE_CONFIG.contact.email>>)
         ELSE Returns

\* Mutant: the listener treats a missing namespace as header.js does.
contact_Guarded(ns, has) ==
    IF "contact-content" \notin has THEN Returns
    ELSE IF ~ns THEN Logs("contact.js", "error")
    ELSE Writes(<<"mailto:", toLowerCase(SITE_CONFIG.contact.email), "tel:",
                  removeSpaces(SITE_CONFIG.contact.phone), SITE_CONFIG.contact.phone>>)

\* contact.js:10-53: config falls back to {} and contact to {}, so the
\* address and the number fall back to the literals of lines 21-22.
contact(ns, has) ==
    IF "contact-content" \notin has THEN Returns
    ELSE LET email == toLowerCase(IF ns THEN SITE_CONFIG.contact.email
                                  ELSE "marcus@mbsecure.nl")
             phone == IF ns THEN SITE_CONFIG.contact.phone ELSE "+31 6 41 54 50 71"
         IN  Writes(<<"mailto:", email, "tel:", removeSpaces(phone), phone>>)


\* nav.js:12-102 on the homepage. The skip link is inserted before the
\* placeholder is looked up; without MBSecure the prefix falls back to ''
\* and the logo's alt text to the literal of line 47.
injectNav(ns, has, base) ==
    LET skipLink == << <<"nav.js", "a.skip-to-content">> >>
        basePath_ == IF ns THEN base ELSE <<>>
        logoAlt  == IF ns THEN SITE_CONFIG.branding.logoAlt ELSE "MB Secure Logo"
    IN  IF "nav" \notin has THEN Outcome(NoWrite, <<>>, FALSE, skipLink, <<>>)
        ELSE Outcome(<<"a.nav-logo", "href=">> \o basePath_ \o <<"index.html", "img", "src=">>
                     \o basePath_ \o <<"images/logo.png", "alt=", logoAlt, "#about",
                                       "services/", "#contact", "blog/index.html">>,
                     <<>>, FALSE, skipLink, <<>>)

\* main.js:8-67. The title bar and the backdrop are appended first; then
\* MBUtil.navList(nav) evaluates nav.querySelectorAll (util.js:28), a
\* TypeError when getElementById('nav') returned null, and the script ends
\* there.
buildPanel(has) ==
    LET first == << <<"main.js", "titleBar">>, <<"main.js", "navBackdrop">> >>
    IN  IF "nav" \in has
        THEN Outcome(NoWrite, <<>>, FALSE, Append(first, <<"main.js", "navPanel">>), <<>>)
        ELSE Outcome(NoWrite, <<>>, TRUE, first, <<>>)

\* !x for a data attribute: absent or empty
Missing(x) == x = Undefined \/ x = ""

\* Mutant: the modification date is always the publication date.
dateModifiedOf_Published(d) == d.datePublished

\* article.dataset.dateModified || datePublished, blog-meta:33
dateModifiedOf(d) ==
    IF Missing(d.dateModified) THEN d.datePublished ELSE d.dateModified

\* The structured-data emitter, DOMContentLoaded listener of blog-meta:17-83
blogMeta(ns, has, d) ==
    IF "article" \notin has THEN Returns
    ELSE IF "blog-structured-data" \notin has THEN Returns
    ELSE IF Missing(d.headline) \/ Missing(d.datePublished)
         THEN Logs("blog-meta.js", "warn")
    ELSE Outcome(NoWrite, <<>>, FALSE, <<>>,
                 << [headline      |-> d.headline,
                     datePublished |-> d.datePublished,
                     dateModified  |-> dateModifiedOf(d),
                     authorUrl     |-> IF ns THEN SITE_CONFIG.social.linkedin
                                       ELSE "https://www.linkedin.com/in/marcusbakker",
                     description   |-> IF Missing(d.description) THEN ""
                                       ELSE d.description,
                     image         |-> IF Missing(d.image) THEN Undefined
                                       ELSE d.image] >>)


\* Values of the data attributes of the article
Headlines == {Undefined, "", "Post"}
PublishedDates == {Undefined, "", "2020-01-01"}
ModifiedDates == {Undefined, "", "2020-02-03"}
Extras == {[description |-> Undefined, image |-> Undefined],
           [description |-> "Text", image |-> "https://mbsecure.nl/images/blog/image.png"]}
Datasets ==
    {[headline |-> h, datePublished |-> p, dateModified |-> m,
      description |-> x.description, image |-> x.image] :
        h \in Headlines, p \in PublishedDates, m \in ModifiedDates, x \in Extras}

NoAttributes ==
    [headline |-> Undefined, datePublished |-> Undefined, dateModified |-> Undefined,
     description |-> Undefined, image |-> Undefined]

outsideLoad == <<pathVars, panelVars, spyVars, escVars, optVars, throttleVars>>

\* A script or listener runs, once, with outcome o for placeholder p.
Run(script, p, o) ==
    /\ script \notin ran
    /\ ran' = ran \cup {script}
    /\ innerHTML' = IF o.html = NoWrite THEN innerHTML
                    ELSE [innerHTML EXCEPT ![p] = o.html]
    /\ console' = console \o o.log
    /\ uncaught' = IF o.threw THEN uncaught \cup {script} ELSE uncaught
    /\ bodyAdded' = bodyAdded \o o.added
    /\ structured' = structured \o o.data
    /\ UNCHANGED <<namespace, present, dataset, outsideLoad>>

\* The scripts run in document order, nav.js before main.js (nav.js:7-10);
\* the DOMContentLoaded listeners run after both, in the order the page
\* lists their scripts.
ScriptsDone == {"nav.js", "main.js"} \subseteq ran

RunNav ==
    /\ "main.js" \notin ran
    /\ Run("nav.js", "nav", injectNav(namespace, present, basePath))

RunMain ==
    /\ "nav.js" \in ran
    /\ Run("main.js", "nav", buildPanel(present))

RunHeader ==
    /\ ScriptsDone
    /\ Run("header.js", "header", header(namespace, present, basePath))

RunFooter ==
    /\ ScriptsDone
    /\ Run("footer.js", "footer", footer(namespace, present))

RunContact ==
    /\ ScriptsDone
    /\ Run("contact.js", "contact-content", contact(namespace, present))

RunBlogMeta ==
    /\ ScriptsDone
    /\ Run("blog-meta.js", "blog-structured-data", blogMeta(namespace, present, dataset))

InitLoad ==
    /\ pathname = <<"/">>
    /\ hostname = <<"mbsecure", ".", "nl">>
    /\ basePath = getBasePath(pathname, hostname)
    /\ PanelInit
    /\ PageAtRest
    /\ EscIdle
    /\ OptIdle
    /\ ThrottleIdle
    /\ namespace \in BOOLEAN
    /\ present \in SUBSET Placeholders
    /\ dataset \in (IF "article" \in present THEN Datasets ELSE {NoAttributes})
    /\ innerHTML = [p \in Placeholders |-> Untouched]
    /\ bodyAdded = <<>>
    /\ console = <<>>
    /\ uncaught = {}
    /\ structured = <<>>
    /\ ran = {}

NextLoad ==
    \/ RunNav
    \/ RunMain
    \/ RunHeader
    \/ RunFooter
    \/ RunContact
    \/ RunBlogMeta

SpecLoad == InitLoad /\ [][NextLoad]_vars


(***************************************************************************)
(* Properties of the page load, checked under SpecLoad                     *)
(***************************************************************************)
Injectors == {"nav.js", "header.js", "footer.js", "contact.js"}
Components == Injectors \cup {"main.js", "blog-meta.js"}

\* The element a component needs in the document.
PlaceholderOf(script) ==
    CASE script = "nav.js"       -> "nav"
      [] script = "main.js"      -> "nav"
      [] script = "header.js"    -> "header"
      [] script = "footer.js"    -> "footer"
      [] script = "contact.js"   -> "contact-content"
      [] script = "blog-meta.js" -> "blog-structured-data"

AddedBy(script) == {i \in DOMAIN bodyAdded : bodyAdded[i][1] = script}
LoggedBy(script) == {i \in DOMAIN console : console[i][1] = script}

\* C12: a component that has run on a document without its placeholder
\* element has produced no output and has not ended with an uncaught
\* exception.
C12_MissingPlaceholderQuiet ==
    \A s \in ran :
        PlaceholderOf(s) \notin present =>
            /\ s \notin uncaught
            /\ AddedBy(s) = {}
            /\ innerHTML[PlaceholderOf(s)] = Untouched
            /\ (s = "blog-meta.js" => structured = <<>>)

\* C13 as stated: without the namespace every injector that has run has
\* logged a diagnostic and left its placeholder as it was.
C13_EveryInjectorSkips ==
    ~namespace =>
        \A s \in ran \cap Injectors :
            LoggedBy(s) # {} /\ innerHTML[PlaceholderOf(s)] = Untouched

\* What an injector assigns to its own placeholder, from the window and the
\* document alone.
OwnMarkup(s) ==
    CASE s = "nav.js"     -> injectNav(namespace, present, basePath).html
      [] s = "header.js"  -> header(namespace, present, basePath).html
      [] s = "footer.js"  -> footer(namespace, present).html
      [] s = "contact.js" -> contact(namespace, present).html

\* C13: without the namespace, header.js and footer.js log an error and
\* leave their placeholders as they were, while contact.js and nav.js log
\* nothing and inject markup built from their literal defaults; every
\* placeholder holds its static markup or what its own injector assigns,
\* whichever other injectors have run.
C13_MissingConfigIsolated ==
    /\ ~namespace =>
        /\ \A s \in ran \cap {"header.js", "footer.js"} :
               LoggedBy(s) # {} /\ innerHTML[PlaceholderOf(s)] = Untouched
        /\ "contact.js" \in ran /\ "contact-content" \in present =>
               /\ LoggedBy("contact.js") = {}
               /\ innerHTML["contact-content"] =
                      <<"mailto:", "marcus@mbsecure.nl", "tel:", "+31641545071",
                        "+31 6 41 54 50 71">>
        /\ "nav.js" \in ran /\ "nav" \in present =>
               /\ LoggedBy("nav.js") = {}
               /\ innerHTML["nav"] # Untouched
               /\ \E i \in DOMAIN innerHTML["nav"] : innerHTML["nav"][i] = "MB Secure Logo"
    /\ \A s \in Injectors :
           innerHTML[PlaceholderOf(s)] # Untouched =>
               s \in ran /\ innerHTML[PlaceholderOf(s)] = OwnMarkup(s)
    /\ \A p \in Placeholders \ {PlaceholderOf(s) : s \in Injectors} :
           innerHTML[p] = Untouched

C13_Witness ==
    /\ ~namespace
    /\ Injectors \subseteq ran
    /\ {PlaceholderOf(s) : s \in Injectors} \subseteq present
    /\ LoggedBy("header.js") # {} /\ LoggedBy("footer.js") # {}
    /\ innerHTML["header"] = Untouched /\ innerHTML["footer"] = Untouched
    /\ innerHTML["contact-content"] # Untouched /\ innerHTML["nav"] # Untouched


Absent == {Undefined, ""}

\* C15: once the emitter has run on a page with the article and the
\* placeholder, nothing is emitted when headline or datePublished is absent
\* or empty; otherwise one object is emitted whose headline and
\* datePublished are the attributes, whose dateModified is datePublished
\* when the attribute is absent or empty and the attribute unchanged when it
\* is present, and whose author URL is the same with and without MBSecure.
C15_StructuredData ==
    ("blog-meta.js" \in ran /\ {"article", "blog-structured-data"} \subseteq present) =>
        IF dataset.headline \in Absent \/ dataset.datePublished \in Absent
        THEN structured = <<>>
        ELSE /\ Len(structured) = 1
             /\ structured[1].headline = dataset.headline
             /\ structured[1].datePublished = dataset.datePublished
             /\ dataset.dateModified \in Absent =>
                    structured[1].dateModified = dataset.datePublished
             /\ dataset.dateModified \notin Absent =>
                    structured[1].dateModified = dataset.dateModified
             /\ structured[1].authorUrl = "https://www.linkedin.com/in/marcusbakker"

C15_Witness ==
    /\ "blog-meta.js" \in ran
    /\ dataset.dateModified = ""
    /\ dataset.datePublished = "2020-01-01"
    /\ Len(structured) = 1
    /\ structured[1].dateModified = "2020-01-01"
    /\ ~namespace

(***************************************************************************)
(* escapeHtml and the markup of navList (util.js). A string is a sequence  *)
(* of characters; "amp;" and "lt;" stand for those runs of plain           *)
(* characters, so that text which already looks escaped can be an input.   *)
(***************************************************************************)
Chars == {"x", "&", "<", ">", "\"", "'", "amp;", "lt;"}

\* String.prototype.replace(/ch/g, rep)
RECURSIVE replaceAll(_, _, _)
replaceAll(s, ch, rep) ==
    IF s = <<>> THEN <<>>
    ELSE (IF Head(s) = ch THEN rep ELSE <<Head(s)>>) \o replaceAll(Tail(s), ch, rep)

\* Mutant: the ampersand is replaced after the other characters.
escapeHtml_AmpLast(str) ==
    IF str = <<>> THEN <<>>
    ELSE replaceAll(replaceAll(replaceAll(replaceAll(replaceAll(str,
             "<", <<"&", "lt;">>),
             ">", <<"&", "gt;">>),
             "\"", <<"&", "quot;">>),
             "'", <<"&", "#39;">>),
             "&", <<"&", "amp;">>)

\* escapeHtml, util.js:12-20
escapeHtml(str) ==
    IF str = <<>> THEN <<>>
    ELSE replaceAll(replaceAll(replaceAll(replaceAll(replaceAll(str,
             "&", <<"&", "amp;">>),
             "<", <<"&", "lt;">>),
             ">", <<"&", "gt;">>),
             "\"", <<"&", "quot;">>),
             "'", <<"&", "#39;">>)

\* link.getAttribute(name) || ''
attributeOrEmpty(v) == IF v = NoHref THEN <<>> ELSE v

\* The piece navList pushes for one link, util.js:31-54: the depth and the
\* three escaped substrings between its literal pieces; NoHref for an
\* attribute it leaves out.
navListLink(link) ==
    LET counted == link.lis - 1
        indent  == IF counted > 0 THEN counted ELSE 0
        href    == attributeOrEmpty(link.href)
        target  == attributeOrEmpty(link.target)
    IN  [indent |-> indent,
         target |-> IF target = <<>> THEN NoHref ELSE escapeHtml(target),
         href   |-> IF href = <<>> THEN NoHref ELSE escapeHtml(href),
         text   |-> escapeHtml(link.textContent)]

RECURSIVE StringsOfLen(_)
StringsOfLen(n) ==
    IF n = 0 THEN {<<>>}
    ELSE {Append(s, c) : s \in StringsOfLen(n - 1), c \in Chars}

LiAncestors == {0, 1, 2}

\* One link of nav: one of its three strings is s, the other two are plain
\* or absent.
Anchors(s, n) ==
    {[href |-> s, target |-> t, textContent |-> <<"x">>, lis |-> n] :
        t \in {NoHref, <<"x">>}}
    \cup {[href |-> <<"x">>, target |-> s, textContent |-> u, lis |-> n] :
        u \in {<<>>, <<"&", "amp;">>}}
    \cup {[href |-> h, target |-> NoHref, textContent |-> attributeOrEmpty(s), lis |-> n] :
        h \in {NoHref, <<"<">>}}

InitEscape ==
    /\ pathname = <<"/">>
    /\ hostname = <<"mbsecure", ".", "nl">>
    /\ basePath = getBasePath(pathname, hostname)
    /\ PanelInit
    /\ PageAtRest
    /\ LoadIdle
    /\ OptIdle
    /\ ThrottleIdle
    /\ \E n \in 0..MaxStrLen, k \in LiAncestors :
           \E s \in StringsOfLen(n) \cup {NoHref} :
               \E a \in Anchors(s, k) : navLinksIn = <<a>>
    /\ result = <<>>

\* MBUtil.navList(nav), util.js:27-57
CallNavList ==
    /\ result = <<>>
    /\ result' = [i \in DOMAIN navLinksIn |-> navListLink(navLinksIn[i])]
    /\ UNCHANGED <<navLinksIn, pathVars, panelVars, spyVars, loadVars, optVars,
                   throttleVars>>

NextEscape == CallNavList

SpecEscape == InitEscape /\ [][NextEscape]_vars

(***************************************************************************)
(* Properties of the markup, checked under SpecEscape                      *)
(***************************************************************************)
EntityTails == {"amp;", "lt;", "gt;", "quot;", "#39;"}

CharOf(tail) ==
    CASE tail = "amp;"  -> "&"
      [] tail = "lt;"   -> "<"
      [] tail = "gt;"   -> ">"
      [] tail = "quot;" -> "\""
      [] tail = "#39;"  -> "'"

\* What an HTML parser reads back: each character reference is decoded once.
RECURSIVE decodeEntities(_)
decodeEntities(s) ==
    IF s = <<>> THEN <<>>
    ELSE IF Head(s) = "&" /\ Len(s) >= 2 /\ s[2] \in EntityTails
         THEN <<CharOf(s[2])>> \o decodeEntities(Tail(Tail(s)))
         ELSE <<Head(s)>> \o decodeEntities(Tail(s))

\* No raw markup character, and every ampersand starts one of the five
\* entities.
IsEscaped(v) ==
    /\ \A i \in DOMAIN v : v[i] \notin {"<", ">", "\"", "'"}
    /\ \A i \in DOMAIN v : v[i] = "&" => (i < Len(v) /\ v[i + 1] \in EntityTails)

EscapedFrom(v, raw) == IsEscaped(v) /\ decodeEntities(v) = attributeOrEmpty(raw)

\* C14: in the markup navList builds for a link, the target value, the href
\* value and the label contain no raw < > " ' and every & in them starts
\* one of &amp; &lt; &gt; &quot; &#39;, each character of the input being
\* escaped exactly once: decoding the entities gives the input back.
C14_NavMarkupEscaped ==
    \A i \in DOMAIN result :
        /\ result[i].target # NoHref => EscapedFrom(result[i].target, navLinksIn[i].target)
        /\ result[i].href # NoHref => EscapedFrom(result[i].href, navLinksIn[i].href)
        /\ EscapedFrom(result[i].text, navLinksIn[i].textContent)

C14_Witness ==
    /\ result # <<>>
    /\ navLinksIn[1].textContent = <<"<", "&", "amp;">>
    /\ result[1].text = <<"&", "lt;", "&", "amp;", "amp;">>


(***************************************************************************)
(* MBUtil.panel under other configurations: the navigation panel with      *)
(* every combination of hideOnSwipe and side, and a panel that holds two   *)
(* forms with every combination of resetScroll and resetForms.             *)
(***************************************************************************)
Sides == {Null, "left", "right", "top", "bottom"}

SwipeOptionSets ==
    {[userConfig EXCEPT !.hideOnSwipe = s, !.side = d] : s \in BOOLEAN, d \in Sides}

ResetOptionSets ==
    {[userConfig EXCEPT !.resetScroll = r, !.resetForms = f] :
        r \in BOOLEAN, f \in BOOLEAN}

\* The toggle and the page content: show, and hide(event)
OptionTargets ==
    {t \in OutsideElements : t.id \in {<<"titleBar", "toggle">>, <<"body", "content">>}}

SwipeStart == <<60, 60>>
\* Where a move ends: 50 or 51 away from the start towards one side and up
\* to 20 off that axis, or where it began.
Along == {50, 51}
Across == {-20, 0, 19, 20}
SwipeMoves ==
    {SwipeStart} \cup
    UNION {{<<SwipeStart[1] + p, SwipeStart[2] + o>>,
            <<SwipeStart[1] - p, SwipeStart[2] + o>>,
            <<SwipeStart[1] + o, SwipeStart[2] + p>>,
            <<SwipeStart[1] + o, SwipeStart[2] - p>>} : p \in Along, o \in Across}

\* The user types into a form of the panel.
EditForm(i) ==
    /\ ~forms[i]
    /\ forms' = [forms EXCEPT ![i] = TRUE]
    /\ last' = Quiet("input")
    /\ streak' = NoStreak
    /\ UNCHANGED <<idleVars, options, pathVars, spyVars, visible, touchPos, panelScrollTop,
                   cleanupTimers, scrollTimers, scheduled, visibleHides>>

InitOptions ==
    /\ pathname = <<"/">>
    /\ hostname = <<"mbsecure", ".", "nl">>
    /\ basePath = getBasePath(pathname, hostname)
    /\ PanelInit
    /\ PageAtRest
    /\ LoadIdle
    /\ EscIdle
    /\ ThrottleIdle
    /\ \/ options \in SwipeOptionSets /\ forms = <<>>
       \/ options \in ResetOptionSets /\ forms = <<FALSE, FALSE>>

NextOptions ==
    \/ \E t \in OptionTargets : Click(t)
    \/ TouchStart(SwipeStart[1], SwipeStart[2])
    \/ \E p \in SwipeMoves : TouchMove(p[1], p[2])
    \/ \E v \in PanelScrollTops : PanelScroll(v)
    \/ \E i \in DOMAIN forms : EditForm(i)
    \/ CleanupTimer

SpecOptions == InitOptions /\ [][NextOptions]_vars


(***************************************************************************)
(* Properties of the panel under other configurations, checked under       *)
(* SpecOptions                                                             *)
(***************************************************************************)
\* A call of hide that found the class present: the class is gone when the
\* call returns, one callback was scheduled, and the event, if one was
\* passed, had preventDefault and stopPropagation called on it once each;
\* a call that found it absent touched no event.
HideCallAsStated(c) ==
    IF c.found
    THEN /\ ~c.left
         /\ c.timers = 1
         /\ c.prevent = (IF c.event THEN 1 ELSE 0)
         /\ c.stop = (IF c.event THEN 1 ELSE 0)
    ELSE c.prevent = 0 /\ c.stop = 0

\* A step in which a cleanup callback runs: scrollTop becomes 0 exactly when
\* resetScroll is set and every form is reset exactly when resetForms is set.
CleanupAsStated ==
    (cleanupTimers' = cleanupTimers - 1) =>
        /\ panelScrollTop' = (IF options.resetScroll THEN 0 ELSE panelScrollTop)
        /\ forms' = (IF options.resetForms THEN [i \in DOMAIN forms |-> FALSE] ELSE forms)

\* C16: hide on a visible panel removes the class in the same step and
\* schedules exactly one cleanup, which later sets scrollTop to 0 when
\* resetScroll is set and resets every form when resetForms is set, and does
\* neither otherwise; with an event it calls preventDefault and
\* stopPropagation, and only when the panel was visible.
C16_HideWhileVisible ==
    /\ [](/\ \A i \in DOMAIN last.log : HideCallAsStated(last.log[i])
          /\ cleanupTimers <= scheduled
          /\ scheduled = visibleHides)
    /\ [][CleanupAsStated]_vars

\* A cleanup has run on a panel that was scrolled and whose forms were
\* edited, with resetForms set and resetScroll unset.
C16_Witness ==
    /\ last.type = "cleanup"
    /\ options.resetForms /\ ~options.resetScroll
    /\ forms = <<FALSE, FALSE>>
    /\ panelScrollTop # 0
    /\ scheduled = 1 /\ cleanupTimers = 0

Moved == last.type = "touchmove" /\ last.from # NoTouch

\* Displacement of the touch from where it began, rightwards and downwards
Dx == last.at[1] - last.from[1]
Dy == last.at[2] - last.from[2]

Within(v) == v < boundary /\ v > -boundary

\* The displacement is d or more towards the side and within the boundary
\* across it.
Towards(side, d) ==
    CASE side = "right"  -> Dx >= d /\ Within(Dy)
      [] side = "left"   -> -Dx >= d /\ Within(Dy)
      [] side = "bottom" -> Dy >= d /\ Within(Dx)
      [] side = "top"    -> -Dy >= d /\ Within(Dx)
      [] OTHER           -> FALSE

\* The move called hide once and the panel is hidden; or it called nothing
\* and the panel is as it was.
SwipeHid == Len(last.log) = 1 /\ ~visible
SwipeIgnored == last.log = <<>> /\ visible = last.before

\* C17 as stated: the move hides exactly when hideOnSwipe is set and the
\* displacement towards the configured side is at least 50.
C17_SwipeAtLeast50 ==
    Moved => IF options.hideOnSwipe /\ Towards(options.side, delta)
             THEN SwipeHid ELSE SwipeIgnored

\* C17: a touchmove after a touchstart hides the panel exactly when
\* hideOnSwipe is set, side is left, right, top or bottom, the displacement
\* across is strictly within 20 and the displacement towards the side is
\* more than 50; with hideOnSwipe unset or side null no move hides, nor does
\* a swipe towards another side.
C17_SwipeMoreThan50 ==
    Moved => IF options.hideOnSwipe /\ Towards(options.side, delta + 1)
             THEN SwipeHid ELSE SwipeIgnored

\* A swipe of exactly 50 towards the configured side is ignored.
C17_Witness ==
    /\ Moved
    /\ options.hideOnSwipe /\ options.side = "left"
    /\ Dx = -delta /\ Dy = 0
    /\ last.before /\ visible
    /\ last.log = <<>>


(***************************************************************************)
(* throttle(func, limit), site-config.js:69-80, with a clock               *)
(***************************************************************************)
Limits == {1, 3}

\* Who calls the throttled function, and with what
Callers == {[this |-> "window", args |-> <<>>],
            [this |-> "nav", args |-> <<"event">>]}

\* Mutant: a call inside the window is applied as well.
throttled_NeverDrops(flag, throws) ==
    IF throws THEN "threw" ELSE "applied"

\* The returned function, lines 71-79: what a call does, given the flag and
\* whether func throws. func.apply comes before inThrottle = true, so an
\* exception leaves the flag and the timer untouched.
throttled(flag, throws) ==
    IF flag THEN "dropped"
    ELSE IF throws THEN "threw" ELSE "applied"

outsideThrottle == <<pathVars, panelVars, spyVars, loadVars, escVars, optVars>>

\* A call of the throttled function by c; func returns or throws.
CallThrottled(c, throws) ==
    LET did  == throttled(inThrottle, throws)
        call == [this |-> c.this, args |-> c.args, at |-> now, did |-> did]
    IN  /\ called < MaxCalls
        /\ called' = called + 1
        /\ lastCall' = call
        /\ IF did = "dropped"
           THEN UNCHANGED <<lastApply, applied>>
           ELSE lastApply' = call /\ applied' = applied + 1
        /\ IF did = "applied"
           THEN /\ inThrottle' = TRUE
                /\ timeouts' = Append(timeouts, now + limit)
                /\ openedAt' = now
           ELSE UNCHANGED <<inThrottle, timeouts, openedAt>>
        /\ UNCHANGED <<limit, now, outsideThrottle>>

\* The callback of line 76 runs, at its due time or later.
ThrottleTimeout ==
    /\ timeouts # <<>>
    /\ now >= Head(timeouts)
    /\ timeouts' = Tail(timeouts)
    /\ inThrottle' = FALSE
    /\ UNCHANGED <<limit, now, lastCall, lastApply, called, applied, openedAt,
                   outsideThrottle>>

\* A millisecond passes.
Tick ==
    /\ now < MaxTime
    /\ now' = now + 1
    /\ UNCHANGED <<limit, inThrottle, timeouts, lastCall, lastApply, called, applied,
                   openedAt, outsideThrottle>>

InitThrottle ==
    /\ pathname = <<"/">>
    /\ hostname = <<"mbsecure", ".", "nl">>
    /\ basePath = getBasePath(pathname, hostname)
    /\ PanelInit
    /\ PageAtRest
    /\ LoadIdle
    /\ EscIdle
    /\ OptIdle
    /\ limit \in Limits
    /\ ThrottleNew

NextThrottle ==
    \/ \E c \in Callers, throws \in BOOLEAN : CallThrottled(c, throws)
    \/ ThrottleTimeout
    \/ Tick

SpecThrottle == InitThrottle /\ [][NextThrottle]_vars


(***************************************************************************)
(* Properties of throttle, checked under SpecThrottle                      *)
(***************************************************************************)
IsCall == called' = called + 1

\* The step applies func now, with the this and the arguments of the call.
AppliesNow ==
    /\ applied' = applied + 1
    /\ lastApply'.this = lastCall'.this
    /\ lastApply'.args = lastCall'.args
    /\ lastApply'.at = now

AppliesNothing == applied' = applied /\ lastApply' = lastApply

OpensWindow == inThrottle' /\ timeouts' = Append(timeouts, now + limit)

\* Calls inside a window are dropped and nothing outside a call applies
\* func; two windows never open less than limit ms apart.
DropsAndSpaces ==
    /\ (IsCall /\ inThrottle) => (AppliesNothing /\ UNCHANGED <<inThrottle, timeouts>>)
    /\ ~IsCall => AppliesNothing
    /\ (timeouts # <<>> /\ timeouts' = <<>>) => ~inThrottle'
    /\ (openedAt' # openedAt /\ openedAt # Never) => openedAt' - openedAt >= limit

\* C20 as stated: every call outside a window applies func immediately and
\* opens a window; calls inside it are dropped and never applied later; func
\* runs at most once per window.
C20_EveryOutsideCallOpens ==
    [][/\ (IsCall /\ ~inThrottle) => (AppliesNow /\ OpensWindow)
       /\ DropsAndSpaces]_vars

\* C20: a call outside a window applies func immediately with the call's
\* this and arguments and, when func returns, opens a window of limit ms;
\* when func throws, no window opens and the next call applies func again.
\* A call inside a window is dropped and never applied later; once the
\* window's timer has fired the next call applies func again; func returns
\* at most once per window.
C20_FixedWindow ==
    [][/\ (IsCall /\ ~inThrottle) =>
              /\ AppliesNow
              /\ IF lastCall'.did = "threw"
                 THEN UNCHANGED <<inThrottle, timeouts>>
                 ELSE OpensWindow
       /\ DropsAndSpaces]_vars

\* Two calls applied and one dropped in between, the second window opening
\* limit ms after the first.
C20_Witness ==
    /\ limit = 3
    /\ called = 3 /\ applied = 2
    /\ lastCall.did = "applied"
    /\ lastCall.at = 3
    /\ openedAt = 3
    /\ inThrottle

====
